---- MODULE Spec2Model ----
(***************************************************************************)
(* A model of src/src/gdp_utils.py: the GDP pipeline                      *)
(*     fetch_worldbank_gdp -> clean_gdp -> to_wide.                        *)
(*                                                                         *)
(* A table (pandas DataFrame) is a sequence of rows; a row is a record     *)
(* with its index label idx and one field per column.  A cell that the     *)
(* code converts (year, value) is a tagged record, so that int(), float()  *)
(* and astype() are computed, not assumed:                                 *)
(*   kind "null"  : None / JSON null                                      *)
(*   kind "nan"   : the float NaN (pandas' missing-value marker)           *)
(*   kind "int"   : the integer of magnitude mag, negative when neg        *)
(*   kind "float" : the double mag * 2^exp, negative when neg              *)
(*   kind "inf"   : the float infinity, negative when neg                  *)
(*   kind "str"   : a string, in text, as a sequence of characters         *)
(* Magnitudes are natural numbers of any size, kept as decimal digits.     *)
(* Two specifications share the actions:                                   *)
(*   Spec      : a pipeline run, from the HTTP request on;                 *)
(*   SpecClean : clean_gdp and to_wide called on an arbitrary input table. *)
(***************************************************************************)
EXTENDS Integers, Sequences, FiniteSets, TLC

VARIABLES
    pc,           \* position of the run
    err,          \* the exception raised to the caller, "none" when none
    returned,     \* the calls that have returned a table to the caller
    reqCount,     \* outbound network requests issued so far
    redirects,    \* redirects followed within the call of requests.get
    countries_iso3, start_year, end_year,   \* arguments of fetch_worldbank_gdp
    resp,         \* the HTTP response (or transport failure) of requests.get
    data,         \* resp.json()
    df,           \* the table returned by fetch_worldbank_gdp / given to clean_gdp
    tidy,         \* the table returned by clean_gdp
    wide          \* the table returned by to_wide

vars == <<pc, err, returned, reqCount, redirects, countries_iso3, start_year, end_year,
          resp, data, df, tidy, wide>>

---------------------------------------------------------------------------
(* Bounds *)

\* Most records in the second element of the API envelope.
MaxRecords == 2
\* Most rows of a table handed directly to clean_gdp.
MaxRows == 2

---------------------------------------------------------------------------
(* Static data *)

\* The country-name -> ISO3 table, restricted to two of its seven entries.
ISO3 == [c \in {"Brazil", "Japan"} |-> IF c = "Brazil" THEN "BRA" ELSE "JPN"]

Countries == DOMAIN ISO3

\* Python's str ordering on the country names in use: "Brazil" < "Japan".
CountryOrder == <<"Brazil", "Japan">>

CountryRank(c) == CHOOSE i \in 1..Len(CountryOrder) : CountryOrder[i] = c

\* The years a caller may request.
RequestYears == 2000..2001

---------------------------------------------------------------------------
(* Characters *)

Range(s) == {s[i] : i \in 1..Len(s)}

\* Strings are sequences of characters.  A character that cannot be written in
\* a string literal is written as its code point: "\\x0b" for the vertical
\* tab, "U+00A0" for the no-break space.

\* The decimal digits int() and float() read: the ten characters of every
\* decimal-digit block of Unicode, the ASCII block first; the k-th character
\* of a block is the digit k - 1.
DigitBlocks ==
    <<<<"0", "1", "2", "3", "4", "5", "6", "7", "8", "9">>,
     <<"U+0660", "U+0661", "U+0662", "U+0663", "U+0664", "U+0665", "U+0666", "U+0667", "U+0668", "U+0669">>,
     <<"U+06F0", "U+06F1", "U+06F2", "U+06F3", "U+06F4", "U+06F5", "U+06F6", "U+06F7", "U+06F8", "U+06F9">>,
     <<"U+07C0", "U+07C1", "U+07C2", "U+07C3", "U+07C4", "U+07C5", "U+07C6", "U+07C7", "U+07C8", "U+07C9">>,
     <<"U+0966", "U+0967", "U+0968", "U+0969", "U+096A", "U+096B", "U+096C", "U+096D", "U+096E", "U+096F">>,
     <<"U+09E6", "U+09E7", "U+09E8", "U+09E9", "U+09EA", "U+09EB", "U+09EC", "U+09ED", "U+09EE", "U+09EF">>,
     <<"U+0A66", "U+0A67", "U+0A68", "U+0A69", "U+0A6A", "U+0A6B", "U+0A6C", "U+0A6D", "U+0A6E", "U+0A6F">>,
     <<"U+0AE6", "U+0AE7", "U+0AE8", "U+0AE9", "U+0AEA", "U+0AEB", "U+0AEC", "U+0AED", "U+0AEE", "U+0AEF">>,
     <<"U+0B66", "U+0B67", "U+0B68", "U+0B69", "U+0B6A", "U+0B6B", "U+0B6C", "U+0B6D", "U+0B6E", "U+0B6F">>,
     <<"U+0BE6", "U+0BE7", "U+0BE8", "U+0BE9", "U+0BEA", "U+0BEB", "U+0BEC", "U+0BED", "U+0BEE", "U+0BEF">>,
     <<"U+0C66", "U+0C67", "U+0C68", "U+0C69", "U+0C6A", "U+0C6B", "U+0C6C", "U+0C6D", "U+0C6E", "U+0C6F">>,
     <<"U+0CE6", "U+0CE7", "U+0CE8", "U+0CE9", "U+0CEA", "U+0CEB", "U+0CEC", "U+0CED", "U+0CEE", "U+0CEF">>,
     <<"U+0D66", "U+0D67", "U+0D68", "U+0D69", "U+0D6A", "U+0D6B", "U+0D6C", "U+0D6D", "U+0D6E", "U+0D6F">>,
     <<"U+0DE6", "U+0DE7", "U+0DE8", "U+0DE9", "U+0DEA", "U+0DEB", "U+0DEC", "U+0DED", "U+0DEE", "U+0DEF">>,
     <<"U+0E50", "U+0E51", "U+0E52", "U+0E53", "U+0E54", "U+0E55", "U+0E56", "U+0E57", "U+0E58", "U+0E59">>,
     <<"U+0ED0", "U+0ED1", "U+0ED2", "U+0ED3", "U+0ED4", "U+0ED5", "U+0ED6", "U+0ED7", "U+0ED8", "U+0ED9">>,
     <<"U+0F20", "U+0F21", "U+0F22", "U+0F23", "U+0F24", "U+0F25", "U+0F26", "U+0F27", "U+0F28", "U+0F29">>,
     <<"U+1040", "U+1041", "U+1042", "U+1043", "U+1044", "U+1045", "U+1046", "U+1047", "U+1048", "U+1049">>,
     <<"U+1090", "U+1091", "U+1092", "U+1093", "U+1094", "U+1095", "U+1096", "U+1097", "U+1098", "U+1099">>,
     <<"U+17E0", "U+17E1", "U+17E2", "U+17E3", "U+17E4", "U+17E5", "U+17E6", "U+17E7", "U+17E8", "U+17E9">>,
     <<"U+1810", "U+1811", "U+1812", "U+1813", "U+1814", "U+1815", "U+1816", "U+1817", "U+1818", "U+1819">>,
     <<"U+1946", "U+1947", "U+1948", "U+1949", "U+194A", "U+194B", "U+194C", "U+194D", "U+194E", "U+194F">>,
     <<"U+19D0", "U+19D1", "U+19D2", "U+19D3", "U+19D4", "U+19D5", "U+19D6", "U+19D7", "U+19D8", "U+19D9">>,
     <<"U+1A80", "U+1A81", "U+1A82", "U+1A83", "U+1A84", "U+1A85", "U+1A86", "U+1A87", "U+1A88", "U+1A89">>,
     <<"U+1A90", "U+1A91", "U+1A92", "U+1A93", "U+1A94", "U+1A95", "U+1A96", "U+1A97", "U+1A98", "U+1A99">>,
     <<"U+1B50", "U+1B51", "U+1B52", "U+1B53", "U+1B54", "U+1B55", "U+1B56", "U+1B57", "U+1B58", "U+1B59">>,
     <<"U+1BB0", "U+1BB1", "U+1BB2", "U+1BB3", "U+1BB4", "U+1BB5", "U+1BB6", "U+1BB7", "U+1BB8", "U+1BB9">>,
     <<"U+1C40", "U+1C41", "U+1C42", "U+1C43", "U+1C44", "U+1C45", "U+1C46", "U+1C47", "U+1C48", "U+1C49">>,
     <<"U+1C50", "U+1C51", "U+1C52", "U+1C53", "U+1C54", "U+1C55", "U+1C56", "U+1C57", "U+1C58", "U+1C59">>,
     <<"U+A620", "U+A621", "U+A622", "U+A623", "U+A624", "U+A625", "U+A626", "U+A627", "U+A628", "U+A629">>,
     <<"U+A8D0", "U+A8D1", "U+A8D2", "U+A8D3", "U+A8D4", "U+A8D5", "U+A8D6", "U+A8D7", "U+A8D8", "U+A8D9">>,
     <<"U+A900", "U+A901", "U+A902", "U+A903", "U+A904", "U+A905", "U+A906", "U+A907", "U+A908", "U+A909">>,
     <<"U+A9D0", "U+A9D1", "U+A9D2", "U+A9D3", "U+A9D4", "U+A9D5", "U+A9D6", "U+A9D7", "U+A9D8", "U+A9D9">>,
     <<"U+A9F0", "U+A9F1", "U+A9F2", "U+A9F3", "U+A9F4", "U+A9F5", "U+A9F6", "U+A9F7", "U+A9F8", "U+A9F9">>,
     <<"U+AA50", "U+AA51", "U+AA52", "U+AA53", "U+AA54", "U+AA55", "U+AA56", "U+AA57", "U+AA58", "U+AA59">>,
     <<"U+ABF0", "U+ABF1", "U+ABF2", "U+ABF3", "U+ABF4", "U+ABF5", "U+ABF6", "U+ABF7", "U+ABF8", "U+ABF9">>,
     <<"U+FF10", "U+FF11", "U+FF12", "U+FF13", "U+FF14", "U+FF15", "U+FF16", "U+FF17", "U+FF18", "U+FF19">>,
     <<"U+104A0", "U+104A1", "U+104A2", "U+104A3", "U+104A4", "U+104A5", "U+104A6", "U+104A7", "U+104A8", "U+104A9">>,
     <<"U+10D30", "U+10D31", "U+10D32", "U+10D33", "U+10D34", "U+10D35", "U+10D36", "U+10D37", "U+10D38", "U+10D39">>,
     <<"U+11066", "U+11067", "U+11068", "U+11069", "U+1106A", "U+1106B", "U+1106C", "U+1106D", "U+1106E", "U+1106F">>,
     <<"U+110F0", "U+110F1", "U+110F2", "U+110F3", "U+110F4", "U+110F5", "U+110F6", "U+110F7", "U+110F8", "U+110F9">>,
     <<"U+11136", "U+11137", "U+11138", "U+11139", "U+1113A", "U+1113B", "U+1113C", "U+1113D", "U+1113E", "U+1113F">>,
     <<"U+111D0", "U+111D1", "U+111D2", "U+111D3", "U+111D4", "U+111D5", "U+111D6", "U+111D7", "U+111D8", "U+111D9">>,
     <<"U+112F0", "U+112F1", "U+112F2", "U+112F3", "U+112F4", "U+112F5", "U+112F6", "U+112F7", "U+112F8", "U+112F9">>,
     <<"U+11450", "U+11451", "U+11452", "U+11453", "U+11454", "U+11455", "U+11456", "U+11457", "U+11458", "U+11459">>,
     <<"U+114D0", "U+114D1", "U+114D2", "U+114D3", "U+114D4", "U+114D5", "U+114D6", "U+114D7", "U+114D8", "U+114D9">>,
     <<"U+11650", "U+11651", "U+11652", "U+11653", "U+11654", "U+11655", "U+11656", "U+11657", "U+11658", "U+11659">>,
     <<"U+116C0", "U+116C1", "U+116C2", "U+116C3", "U+116C4", "U+116C5", "U+116C6", "U+116C7", "U+116C8", "U+116C9">>,
     <<"U+11730", "U+11731", "U+11732", "U+11733", "U+11734", "U+11735", "U+11736", "U+11737", "U+11738", "U+11739">>,
     <<"U+118E0", "U+118E1", "U+118E2", "U+118E3", "U+118E4", "U+118E5", "U+118E6", "U+118E7", "U+118E8", "U+118E9">>,
     <<"U+11950", "U+11951", "U+11952", "U+11953", "U+11954", "U+11955", "U+11956", "U+11957", "U+11958", "U+11959">>,
     <<"U+11C50", "U+11C51", "U+11C52", "U+11C53", "U+11C54", "U+11C55", "U+11C56", "U+11C57", "U+11C58", "U+11C59">>,
     <<"U+11D50", "U+11D51", "U+11D52", "U+11D53", "U+11D54", "U+11D55", "U+11D56", "U+11D57", "U+11D58", "U+11D59">>,
     <<"U+11DA0", "U+11DA1", "U+11DA2", "U+11DA3", "U+11DA4", "U+11DA5", "U+11DA6", "U+11DA7", "U+11DA8", "U+11DA9">>,
     <<"U+16A60", "U+16A61", "U+16A62", "U+16A63", "U+16A64", "U+16A65", "U+16A66", "U+16A67", "U+16A68", "U+16A69">>,
     <<"U+16AC0", "U+16AC1", "U+16AC2", "U+16AC3", "U+16AC4", "U+16AC5", "U+16AC6", "U+16AC7", "U+16AC8", "U+16AC9">>,
     <<"U+16B50", "U+16B51", "U+16B52", "U+16B53", "U+16B54", "U+16B55", "U+16B56", "U+16B57", "U+16B58", "U+16B59">>,
     <<"U+1D7CE", "U+1D7CF", "U+1D7D0", "U+1D7D1", "U+1D7D2", "U+1D7D3", "U+1D7D4", "U+1D7D5", "U+1D7D6", "U+1D7D7">>,
     <<"U+1D7D8", "U+1D7D9", "U+1D7DA", "U+1D7DB", "U+1D7DC", "U+1D7DD", "U+1D7DE", "U+1D7DF", "U+1D7E0", "U+1D7E1">>,
     <<"U+1D7E2", "U+1D7E3", "U+1D7E4", "U+1D7E5", "U+1D7E6", "U+1D7E7", "U+1D7E8", "U+1D7E9", "U+1D7EA", "U+1D7EB">>,
     <<"U+1D7EC", "U+1D7ED", "U+1D7EE", "U+1D7EF", "U+1D7F0", "U+1D7F1", "U+1D7F2", "U+1D7F3", "U+1D7F4", "U+1D7F5">>,
     <<"U+1D7F6", "U+1D7F7", "U+1D7F8", "U+1D7F9", "U+1D7FA", "U+1D7FB", "U+1D7FC", "U+1D7FD", "U+1D7FE", "U+1D7FF">>,
     <<"U+1E140", "U+1E141", "U+1E142", "U+1E143", "U+1E144", "U+1E145", "U+1E146", "U+1E147", "U+1E148", "U+1E149">>,
     <<"U+1E2F0", "U+1E2F1", "U+1E2F2", "U+1E2F3", "U+1E2F4", "U+1E2F5", "U+1E2F6", "U+1E2F7", "U+1E2F8", "U+1E2F9">>,
     <<"U+1E950", "U+1E951", "U+1E952", "U+1E953", "U+1E954", "U+1E955", "U+1E956", "U+1E957", "U+1E958", "U+1E959">>,
     <<"U+1FBF0", "U+1FBF1", "U+1FBF2", "U+1FBF3", "U+1FBF4", "U+1FBF5", "U+1FBF6", "U+1FBF7", "U+1FBF8", "U+1FBF9">>>>

DigitChars == UNION {Range(DigitBlocks[b]) : b \in 1..Len(DigitBlocks)}

\* The digit a digit character stands for.
DigitValue ==
    [ch \in DigitChars |->
        (CHOOSE k \in 1..10 : \E b \in 1..Len(DigitBlocks) : DigitBlocks[b][k] = ch) - 1]

IsDigit(ch) == ch \in DigitChars

DigitVal(ch) == DigitValue[ch]

UpperChars == <<"A", "B", "C", "D", "E", "F", "G", "H", "I", "J", "K", "L", "M",
                "N", "O", "P", "Q", "R", "S", "T", "U", "V", "W", "X", "Y", "Z">>
LowerChars == <<"a", "b", "c", "d", "e", "f", "g", "h", "i", "j", "k", "l", "m",
                "n", "o", "p", "q", "r", "s", "t", "u", "v", "w", "x", "y", "z">>

\* The characters int() and float() skip at both ends of a string: the six
\* ASCII ones (space, \t, \n, \v, \f, \r) and the whitespace outside ASCII.
\* The separators 0x1c - 0x1f are whitespace to str.isspace() and not here.
Whitespace ==
    {" ", "\t", "\n", "\\x0b", "\f", "\r",
     "U+0085", "U+00A0", "U+1680", "U+2000", "U+2001", "U+2002", "U+2003",
     "U+2004", "U+2005", "U+2006", "U+2007", "U+2008", "U+2009", "U+200A",
     "U+2028", "U+2029", "U+202F", "U+205F", "U+3000"}

ToLower(ch) ==
    IF ch \in Range(UpperChars)
    THEN LowerChars[CHOOSE i \in 1..Len(UpperChars) : UpperChars[i] = ch]
    ELSE ch

Lowered(t) == [i \in 1..Len(t) |-> ToLower(t[i])]

MinOf(S) == CHOOSE i \in S : \A j \in S : i <= j
MaxOf(S) == CHOOSE i \in S : \A j \in S : i >= j

\* t from its first character that is not whitespace.
LStrip(t) ==
    LET ns == {i \in 1..Len(t) : t[i] \notin Whitespace}
    IN  IF ns = {} THEN <<>> ELSE SubSeq(t, MinOf(ns), Len(t))

\* t up to its last character that is not whitespace.
RStrip(t) ==
    LET ns == {i \in 1..Len(t) : t[i] \notin Whitespace}
    IN  IF ns = {} THEN <<>> ELSE SubSeq(t, 1, MaxOf(ns))

\* The whitespace at both ends removed.
Strip(t) == RStrip(LStrip(t))

\* An optional leading sign.
HasSign(t)  == t # <<>> /\ t[1] \in {"+", "-"}
Negative(t) == t # <<>> /\ t[1] = "-"
Unsigned(t) == IF HasSign(t) THEN Tail(t) ELSE t

\* A digit part of a numeric literal: digits, with single underscores allowed
\* between two digits.
IsDigits(t) ==
    /\ Len(t) > 0
    /\ IsDigit(t[1])
    /\ IsDigit(t[Len(t)])
    /\ \A i \in 1..Len(t) :
          \/ IsDigit(t[i])
          \/ /\ t[i] = "_"
             /\ IsDigit(t[i - 1])
             /\ IsDigit(t[i + 1])

\* The digits of a digit part, as numbers.
DigitValues(d) == [i \in 1..Len(d) |-> DigitVal(d[i])]

DigitsOf(t) == DigitValues(SelectSeq(t, IsDigit))

\* The first position of ch in t, 0 when there is none.
IndexOf(t, ch) ==
    LET at == {i \in 1..Len(t) : t[i] = ch}
    IN  IF at = {} THEN 0 ELSE MinOf(at)

---------------------------------------------------------------------------
(* Natural numbers of any size *)

\* A natural number is the sequence of its decimal digits, most significant
\* first, without leading zeros: <<0>> is zero, <<2, 0, 0, 0>> is 2000.  Python's
\* int has no bound, and a double has a 53-bit significand.

\* d without its leading zeros.
Norm(d) ==
    LET nz == {i \in 1..Len(d) : d[i] # 0}
    IN  IF nz = {} THEN <<0>> ELSE SubSeq(d, MinOf(nz), Len(d))

RECURSIVE NatOf(_)
NatOf(n) == IF n < 10 THEN <<n>> ELSE Append(NatOf(n \div 10), n % 10)

\* -1, 0 or 1 as a < b, a = b or a > b.
NatCmp(a, b) ==
    LET diff == {i \in 1..Len(a) : i <= Len(b) /\ a[i] # b[i]}
    IN  IF Len(a) < Len(b) THEN -1
        ELSE IF Len(a) > Len(b) THEN 1
        ELSE IF diff = {} THEN 0
        ELSE IF a[MinOf(diff)] < b[MinOf(diff)] THEN -1
        ELSE 1

\* a[lo..hi] * m + c for a small m: the digits d of the product in the places
\* of a[lo..hi] and the carry c out of them.  The range is halved, the right
\* half first, its carry into the left half; with no carry in, a factor of 1
\* leaves the digits as they are.
RECURSIVE MulRange(_, _, _, _, _)
MulRange(a, lo, hi, m, c) ==
    IF c = 0 /\ m = 1 THEN [d |-> SubSeq(a, lo, hi), c |-> 0]
    ELSE IF lo = hi
    THEN LET v == a[lo] * m + c
         IN  [d |-> <<v % 10>>, c |-> v \div 10]
    ELSE LET mid   == (lo + hi) \div 2
             right == MulRange(a, mid + 1, hi, m, c)
             left  == MulRange(a, lo, mid, m, right.c)
         IN  [d |-> left.d \o right.d, c |-> left.c]

\* a * m + c.
NatMulAdd(a, m, c) ==
    LET p == MulRange(a, 1, Len(a), m, c)
    IN  Norm(NatOf(p.c) \o p.d)

NatMul(a, m) == NatMulAdd(a, m, 0)
NatSucc(a)   == NatMulAdd(a, 1, 1)

\* a[lo..hi] divided by a small m, r being the remainder brought in from the
\* left: the quotient's digits q and the remainder r.
RECURSIVE DivRange(_, _, _, _, _)
DivRange(a, lo, hi, m, r) ==
    IF lo = hi
    THEN LET v == r * 10 + a[lo]
         IN  [q |-> <<v \div m>>, r |-> v % m]
    ELSE LET mid   == (lo + hi) \div 2
             left  == DivRange(a, lo, mid, m, r)
             right == DivRange(a, mid + 1, hi, m, left.r)
         IN  [q |-> left.q \o right.q, r |-> right.r]

NatDiv(a, m) == Norm(DivRange(a, 1, Len(a), m, 0).q)

\* a[lo..hi] - b - borrow in the places of a[lo..hi], b aligned to the right
\* of a: the digits d and the borrow out.  Without a borrow, the digits to
\* the left of b are as they are.
RECURSIVE SubRange(_, _, _, _, _)
SubRange(a, b, lo, hi, borrow) ==
    IF borrow = 0 /\ hi <= Len(a) - Len(b)
    THEN [d |-> SubSeq(a, lo, hi), borrow |-> 0]
    ELSE IF lo = hi
    THEN LET j == lo - (Len(a) - Len(b))
             v == a[lo] - (IF j >= 1 THEN b[j] ELSE 0) - borrow
         IN  [d |-> <<IF v < 0 THEN v + 10 ELSE v>>, borrow |-> IF v < 0 THEN 1 ELSE 0]
    ELSE LET mid   == (lo + hi) \div 2
             right == SubRange(a, b, mid + 1, hi, borrow)
             left  == SubRange(a, b, lo, mid, right.borrow)
         IN  [d |-> left.d \o right.d, borrow |-> left.borrow]

\* a - b, for a >= b.
NatSub(a, b) == Norm(SubRange(a, b, 1, Len(a), 0).d)

\* a * 2^n, twenty-seven factors of two at a time (ten times 2^27 is within
\* the integers of the model).
RECURSIVE MulPow2(_, _)
MulPow2(a, n) ==
    IF a = <<0>> \/ n = 0 THEN a
    ELSE IF n >= 27 THEN MulPow2(NatMul(a, 2^27), n - 27)
    ELSE NatMul(a, 2^n)

\* floor(a / 2^n), and whether the division left a remainder.
RECURSIVE DivPow2(_, _)
DivPow2(a, n) ==
    IF a = <<0>> \/ n = 0 THEN [q |-> a, inexact |-> FALSE]
    ELSE LET s  == IF n >= 27 THEN 27 ELSE n
             dv == DivRange(a, 1, Len(a), 2^s, 0)
             p  == DivPow2(Norm(dv.q), n - s)
         IN  [q |-> p.q, inexact |-> p.inexact \/ dv.r # 0]

\* A quotient x (its digits q, and whether a remainder was dropped) divided
\* by 10^n: the last n digits dropped.
DropDigits(x, n) ==
    [q       |-> IF n >= Len(x.q) THEN <<0>> ELSE SubSeq(x.q, 1, Len(x.q) - n),
     inexact |-> x.inexact \/ \E i \in 1..Len(x.q) : i > Len(x.q) - n /\ x.q[i] # 0]

\* a * 10^n.
MulPow10(a, n) == IF a = <<0>> THEN a ELSE a \o [i \in 1..n |-> 0]


\* Whether a is odd.
IsOdd(a) == a[Len(a)] % 2 = 1

\* 2^52 and 2^53 (the significand of a double), 2^63 and 2^64 (int64, uint64).
Pow2_52 == <<4, 5, 0, 3, 5, 9, 9, 6, 2, 7, 3, 7, 0, 4, 9, 6>>
Pow2_53 == <<9, 0, 0, 7, 1, 9, 9, 2, 5, 4, 7, 4, 0, 9, 9, 2>>
Pow2_63 == <<9, 2, 2, 3, 3, 7, 2, 0, 3, 6, 8, 5, 4, 7, 7, 5, 8, 0, 8>>
Pow2_64 == <<1, 8, 4, 4, 6, 7, 4, 4, 0, 7, 3, 7, 0, 9, 5, 5, 1, 6, 1, 6>>

---------------------------------------------------------------------------
(* Cells and their conversions *)

Cell(kind, neg, mag, exp, text) ==
    [kind |-> kind, neg |-> neg, mag |-> mag, exp |-> exp, text |-> text]

Null       == Cell("null", FALSE, <<0>>, 0, <<>>)
NaN        == Cell("nan", FALSE, <<0>>, 0, <<>>)
\* The float infinity of sign sg (1 or -1).
Inf(sg)    == Cell("inf", sg < 0, <<0>>, 0, <<>>)
Str(t)     == Cell("str", FALSE, <<0>>, 0, t)

\* The integer of magnitude mag, negative when neg.
BigInt(neg, mag) == Cell("int", neg /\ mag # <<0>>, mag, 0, <<>>)

IntCell(n) == BigInt(n < 0, NatOf(IF n < 0 THEN -n ELSE n))

IntLess(a, b) ==
    IF a.neg # b.neg THEN a.neg
    ELSE IF a.neg THEN NatCmp(a.mag, b.mag) > 0
    ELSE NatCmp(a.mag, b.mag) < 0

IntLeq(a, b) == a = b \/ IntLess(a, b)

\* The double mag * 2^exp, mag being its significand: 2^52 <= mag < 2^53, or
\* exp = -1074 and mag < 2^52 (a subnormal; zero, which keeps its sign, is
\* mag = 0).
Double(neg, mag, exp) == Cell("float", neg, mag, exp, <<>>)

\* k * 2^q brought to a significand: k halved until it is below 2^53 and its
\* exponent is at least -1074 (the smallest a double has), the last bit
\* dropped in rb and whether any bit below it was set in sticky.
RECURSIVE Shifted(_, _, _, _)
Shifted(k, q, rb, sticky) ==
    IF NatCmp(k, Pow2_53) < 0 /\ q >= -1074
    THEN [k |-> k, q |-> q, rb |-> rb, sticky |-> sticky]
    ELSE Shifted(NatDiv(k, 2), q + 1, IF IsOdd(k) THEN 1 ELSE 0, sticky \/ rb = 1)

\* A lower bound of floor(log2(10^x)).
Log2Pow10(x) ==
    IF x >= 0 THEN (x * 3321928) \div 1000000
    ELSE -(((-x) * 3321929 + 999999) \div 1000000)

\* The power of two d * 10^e10 is divided by before it is rounded: one that
\* leaves at least two bits more than a significand holds, and not below
\* 2^-1076, two bits under the smallest exponent of a double.
ScalingExponent(d, e10) ==
    IF Log2Pow10(Len(d) + e10 - 1) - 54 < -1076 THEN -1076
    ELSE Log2Pow10(Len(d) + e10 - 1) - 54

\* a / 2^q, the fraction dropped, and whether one was.
Scale2(a, q) ==
    IF q <= 0 THEN [q |-> MulPow2(a, -q), inexact |-> FALSE] ELSE DivPow2(a, q)

\* d * 10^e10 / 2^q, the fraction dropped, and whether one was.
Quotient(d, e10, q) ==
    IF e10 >= 0 THEN Scale2(MulPow10(d, e10), q)
    ELSE DropDigits(Scale2(d, q), -e10)

\* The significand k at exponent q as a double: a significand of 2^53 is
\* 2^52 with the next exponent, and 2^1024 or more is infinity.
Finite(neg, k, q) ==
    IF k = Pow2_53 THEN (IF q + 1 > 971 THEN Inf(IF neg THEN -1 ELSE 1)
                         ELSE Double(neg, Pow2_52, q + 1))
    ELSE IF q > 971 THEN Inf(IF neg THEN -1 ELSE 1)
    ELSE Double(neg, k, q)

\* s, a significand with its dropped bits, rounded to the nearest, ties to
\* the even significand.
Rounded(neg, s) ==
    Finite(neg,
           IF s.rb = 1 /\ (s.sticky \/ IsOdd(s.k)) THEN NatSucc(s.k) ELSE s.k,
           s.q)

\* The quotient x at exponent q rounded to a double.
RoundedQuotient(neg, x, q) == Rounded(neg, Shifted(x.q, q, 0, x.inexact))

\* The double nearest to d * 10^e10 (d without leading zeros), ties to the
\* even significand, as float() and the conversion of an integer to float64
\* round.
DoubleOf(neg, d, e10) ==
    IF d = <<0>> \/ Len(d) + e10 < -330 THEN Double(neg, <<0>>, -1074)
    ELSE IF Len(d) + e10 > 310 THEN Inf(IF neg THEN -1 ELSE 1)
    ELSE RoundedQuotient(neg, Quotient(d, e10, ScalingExponent(d, e10)),
                         ScalingExponent(d, e10))

\* The double of a small integer.
Float(n) == DoubleOf(n < 0, NatOf(IF n < 0 THEN -n ELSE n), 0)

\* A conversion's result: the cell, or the exception it raises.
Converted(c) == [ok |-> TRUE,  err |-> "none", cell |-> c]
Failed(e)    == [ok |-> FALSE, err |-> e,      cell |-> Null]

\* int(s) of a stripped string: an optional sign and a digit part of at
\* most 4300 digits (the interpreter's limit on integer strings).
ParseInt(s) ==
    IF IsDigits(Unsigned(s)) /\ Len(DigitsOf(Unsigned(s))) <= 4300
    THEN Converted(BigInt(Negative(s), Norm(DigitsOf(Unsigned(s)))))
    ELSE Failed("ValueError")

\* int(s) of a string: the whitespace at both ends is stripped.
IntOfText(t) == ParseInt(Strip(t))

\* The value of a digit sequence as an integer of the model, 10^8 when it has
\* more than eight digits: an exponent that large is past both ends of the
\* range of a double whatever the mantissa.
RECURSIVE NatVal(_)
NatVal(d) ==
    IF Len(d) > 8 THEN 100000000
    ELSE IF d = <<>> THEN 0
    ELSE NatVal(SubSeq(d, 1, Len(d) - 1)) * 10 + d[Len(d)]

\* The spellings float() reads as NaN and as infinity, lower-cased, unsigned.
NanSpellings == {<<"n", "a", "n">>}
InfSpellings == {<<"i", "n", "f">>, <<"i", "n", "f", "i", "n", "i", "t", "y">>}

\* t before the first ch (all of t when it has none), and t after it.
Before(t, ch) == IF IndexOf(t, ch) = 0 THEN t ELSE SubSeq(t, 1, IndexOf(t, ch) - 1)
After(t, ch)  == IF IndexOf(t, ch) = 0 THEN <<>> ELSE SubSeq(t, IndexOf(t, ch) + 1, Len(t))

\* The exponent of a decimal literal: 0 when it has none.
ExponentOf(expT) ==
    IF expT = <<>> THEN 0
    ELSE (IF Negative(expT) THEN -1 ELSE 1) * NatVal(Norm(DigitsOf(Unsigned(expT))))

\* The decimal literal intT.fracT, with the exponent expT when hasExp:
\* [digits][.[digits]][e[sign]digits] with a digit in the mantissa, rounded
\* to the nearest double.
Decimal(neg, intT, fracT, hasExp, expT) ==
    IF /\ intT = <<>> \/ IsDigits(intT)
       /\ fracT = <<>> \/ IsDigits(fracT)
       /\ intT # <<>> \/ fracT # <<>>
       /\ ~hasExp \/ IsDigits(Unsigned(expT))
    THEN Converted(DoubleOf(neg, Norm(DigitsOf(intT) \o DigitsOf(fracT)),
                            ExponentOf(expT) - Len(SelectSeq(fracT, IsDigit))))
    ELSE Failed("ValueError")

\* The decimal literal of mantissa mantT.
Mantissa(neg, mantT, hasExp, expT) ==
    Decimal(neg, Before(mantT, "."), After(mantT, "."), hasExp, expT)

\* float(s) of a stripped, lower-cased string: an optional sign, then nan,
\* inf, infinity or a decimal literal.
ParseFloat(s) ==
    IF Unsigned(s) \in NanSpellings THEN Converted(NaN)
    ELSE IF Unsigned(s) \in InfSpellings
         THEN Converted(Inf(IF Negative(s) THEN -1 ELSE 1))
    ELSE Mantissa(Negative(s), Before(Unsigned(s), "e"),
                  IndexOf(Unsigned(s), "e") # 0, After(Unsigned(s), "e"))

\* float(s) of a string: the whitespace at both ends is stripped, and the
\* case of the letters does not matter.
FloatOfText(t) == ParseFloat(Lowered(Strip(t)))

\* int(x) of a finite float: the fraction dropped, toward zero.
Truncated(c) ==
    BigInt(c.neg, IF c.exp >= 0 THEN MulPow2(c.mag, c.exp)
                  ELSE DivPow2(c.mag, -c.exp).q)

\* int(x).
ToInt(c) ==
    CASE c.kind = "int"   -> Converted(c)
      [] c.kind = "float" -> Converted(Truncated(c))
      [] c.kind = "str"   -> IntOfText(c.text)
      [] c.kind = "nan"   -> Failed("ValueError")
      [] c.kind = "inf"   -> Failed("OverflowError")
      [] OTHER            -> Failed("TypeError")

\* float(n) of an integer: OverflowError when n is too large for a double.
FiniteOrOverflow(f) ==
    IF f.kind = "inf" THEN Failed("OverflowError") ELSE Converted(f)

\* float(x).
ToFloat(c) ==
    CASE c.kind \in {"float", "nan", "inf"} -> Converted(c)
      [] c.kind = "int" -> FiniteOrOverflow(DoubleOf(c.neg, c.mag, 0))
      [] c.kind = "str" -> FloatOfText(c.text)
      [] OTHER          -> Failed("TypeError")

\* pandas.isna on one element.
IsNa(c) == c.kind \in {"null", "nan"}

---------------------------------------------------------------------------
(* int64 and the dtype of a column *)

\* -2^63 <= c < 2^63, for an int cell c.
FitsInt64(c) ==
    IF c.neg THEN NatCmp(c.mag, Pow2_63) <= 0 ELSE NatCmp(c.mag, Pow2_63) < 0

\* 0 <= c < 2^64, for an int cell c.
FitsUint64(c) == ~c.neg /\ NatCmp(c.mag, Pow2_64) < 0

Int64Min == BigInt(TRUE, Pow2_63)
Int64Max == BigInt(FALSE, NatSub(Pow2_63, <<1>>))

\* The dtype pandas gives a column built from Python objects: object when it
\* holds a string, only None, or integers that fit neither int64 nor uint64
\* together; float64 when it holds a float or a missing value beside numbers;
\* else int64, or uint64 when an integer is past int64.  An integer is looked
\* at for its range as long as no None came before it.  The cells of a column
\* that has a dtype already (int64 years, float64 values) give that dtype.
ColumnDtype(col) ==
    LET Has(kinds) == \E i \in 1..Len(col) : col[i].kind \in kinds
        ranged     == {i \in 1..Len(col) :
                          /\ col[i].kind = "int"
                          /\ \A j \in 1..(i - 1) : col[j].kind # "null"}
    IN  IF Has({"str"}) THEN "object"
        ELSE IF \E i \in ranged : ~FitsInt64(col[i]) /\ ~FitsUint64(col[i])
             THEN "object"
        ELSE IF /\ \E i \in ranged : col[i].neg
                /\ \E i \in ranged : ~FitsInt64(col[i])
             THEN "object"
        ELSE IF Has({"nan", "float", "inf"}) THEN "float64"
        ELSE IF Has({"null"}) THEN (IF Has({"int"}) THEN "float64" ELSE "object")
        ELSE IF \E i \in 1..Len(col) : ~FitsInt64(col[i]) THEN "uint64"
        ELSE IF col = <<>> THEN "object"
        ELSE "int64"

\* What the conversion of a float64 outside int64 gives.  C leaves it
\* undefined; a build gives the smallest int64 for every such value
\* ("indefinite", as x86-64), or the nearest end of int64 ("saturate", as
\* AArch64).
CastOutcomes == {"indefinite", "saturate"}

OutOfRangeCast(c, cast) ==
    IF cast = "indefinite" \/ c.neg THEN Int64Min ELSE Int64Max

\* The 64 bits of a uint64 read as int64.
WrappedInt64(c) ==
    IF FitsInt64(c) THEN c ELSE BigInt(TRUE, NatSub(Pow2_64, c.mag))

\* The integer t, a float64 without its fraction, as int64.
CastInt64(t, cast) == IF FitsInt64(t) THEN t ELSE OutOfRangeCast(t, cast)

\* A finite float64 f (as converted from the element) to int64.
FloatAsInt64(f, cast) ==
    IF f.ok THEN Converted(CastInt64(Truncated(f.cell), cast)) ELSE f

\* int(x) of an element of an object column, r, stored as int64.
ObjectAsInt64(r) ==
    IF r.ok /\ ~FitsInt64(r.cell) THEN Failed("OverflowError") ELSE r

\* astype('int64') on one element of a column of the given dtype.
\*   int64   : as it is;
\*   uint64  : the same 64 bits, read as int64;
\*   float64 : IntCastingNaNError when the column holds a non-finite value,
\*             else the fraction dropped;
\*   object  : int(x), OverflowError when the result does not fit int64.
YearAsInt64(c, dtype, cast) ==
    CASE dtype = "int64"  -> Converted(c)
      [] dtype = "uint64" -> Converted(WrappedInt64(c))
      [] dtype = "float64" ->
            IF c.kind \in {"null", "nan", "inf"} THEN Failed("IntCastingNaNError")
            ELSE FloatAsInt64(ToFloat(c), cast)
      [] OTHER -> ObjectAsInt64(ToInt(c))

\* The exception of the first failed conversion of a sequence of results,
\* "none" when none failed.
FirstError(res) ==
    LET bad == SelectSeq(res, LAMBDA r : ~r.ok)
    IN  IF bad = <<>> THEN "none" ELSE bad[1].err

---------------------------------------------------------------------------
(* Table operations *)

\* The sort key of sort_values(['country', 'year']).
KeyLeq(a, b) ==
    \/ CountryRank(a.country) < CountryRank(b.country)
    \/ /\ a.country = b.country
       /\ IntLeq(a.year, b.year)

\* r placed after every row whose key is not greater: equal keys keep their order.
RECURSIVE InsertStable(_, _)
InsertStable(s, r) ==
    IF s = <<>> THEN <<r>>
    ELSE IF KeyLeq(s[Len(s)], r)
         THEN Append(s, r)
         ELSE Append(InsertStable(SubSeq(s, 1, Len(s) - 1), r), s[Len(s)])

\* sort_values on two keys is a stable (lexsort) ordering.
RECURSIVE SortValues(_)
SortValues(s) ==
    IF s = <<>> THEN <<>>
    ELSE InsertStable(SortValues(SubSeq(s, 1, Len(s) - 1)), s[Len(s)])

\* reset_index(drop=True): labels 0 .. n-1 in row order.
ResetIndex(s) == [i \in 1..Len(s) |-> [s[i] EXCEPT !.idx = i - 1]]

RowIsPresent(r) == ~IsNa(r.value)

\* dropna(subset=['value']).
DropNa(s) == SelectSeq(s, RowIsPresent)

\* df[['country', 'iso3', 'year', 'value']]: the four columns, the index kept.
Project(s) ==
    [i \in 1..Len(s) |->
        [idx |-> s[i].idx, country |-> s[i].country, iso3 |-> s[i].iso3,
         year |-> s[i].year, value |-> s[i].value]]

---------------------------------------------------------------------------
(* clean_gdp *)

\* The result of a call: the table returned, or the exception raised.
Returns(rows) == [ok |-> TRUE,  err |-> "none", rows |-> rows]
Raises(e)     == [ok |-> FALSE, err |-> e,      rows |-> <<>>]

\* astype({'year': 'int64', 'value': 'float64'}): the year column is
\* converted first, then the value column; the first element that fails
\* raises.  The dtype of the year column is that of the frame before dropna.
Typed(kept, years, values) ==
    IF FirstError(years) # "none" THEN Raises(FirstError(years))
    ELSE IF FirstError(values) # "none" THEN Raises(FirstError(values))
    ELSE Returns([i \in 1..Len(kept) |->
                     [kept[i] EXCEPT !.year = years[i].cell,
                                     !.value = values[i].cell]])

Astype(kept, dtype, cast) ==
    Typed(kept,
          [i \in 1..Len(kept) |-> YearAsInt64(kept[i].year, dtype, cast)],
          [i \in 1..Len(kept) |-> ToFloat(kept[i].value)])

YearColumn(s) == [i \in 1..Len(s) |-> s[i].year]

\* sort_values and reset_index on the frame astype returned.
Sorted(typed) ==
    IF typed.ok THEN Returns(ResetIndex(SortValues(typed.rows))) ELSE typed

\* clean_gdp with a drop_duplicates(['country', 'year']) step before the sort.
clean_gdp_dedup(t, cast) ==
    LET typed == Astype(DropNa(Project(t)), ColumnDtype(YearColumn(Project(t))), cast)
        first(r) == \A j \in 1..Len(typed.rows) :
                       (typed.rows[j].country = r.country /\ typed.rows[j].year = r.year)
                           => typed.rows[j].idx >= r.idx
    IN  IF typed.ok
        THEN Returns(ResetIndex(SortValues(SelectSeq(typed.rows, first))))
        ELSE typed

\* clean_gdp(df), cast being what the build does with a float year outside
\* int64.
clean_gdp(t, cast) ==
    Sorted(Astype(DropNa(Project(t)), ColumnDtype(YearColumn(Project(t))), cast))

---------------------------------------------------------------------------
(* to_wide *)

YearsOf(rows)     == {rows[i].year : i \in 1..Len(rows)}
CountriesOf(rows) == {rows[i].country : i \in 1..Len(rows)}

\* An ascending sequence of the integers in S.
RECURSIVE SortedInts(_)
SortedInts(S) ==
    IF S = {} THEN <<>>
    ELSE LET m == CHOOSE x \in S : \A y \in S : IntLeq(x, y)
         IN  <<m>> \o SortedInts(S \ {m})

\* An ascending sequence of the country names in S.
RECURSIVE SortedCountries(_)
SortedCountries(S) ==
    IF S = {} THEN <<>>
    ELSE LET m == CHOOSE x \in S : \A y \in S : CountryRank(x) <= CountryRank(y)
         IN  <<m>> \o SortedCountries(S \ {m})

\* The rows of a table with the key (country c, year y).
RowsWithKey(rows, c, y) ==
    {i \in 1..Len(rows) : rows[i].country = c /\ rows[i].year = y}

\* pivot cannot reshape when two rows share (index, columns) = (year, country).
HasDuplicateKeys(rows) ==
    \E i, j \in 1..Len(rows) :
        /\ i < j
        /\ rows[i].year = rows[j].year
        /\ rows[i].country = rows[j].country

\* PivotCell with the missing cells filled with 0.0 instead of NaN.
PivotCellZeroFill(rows, y, c) ==
    IF RowsWithKey(rows, c, y) # {}
    THEN rows[CHOOSE i \in RowsWithKey(rows, c, y) : TRUE].value
    ELSE Float(0)

\* PivotCell that looks a value up by the year alone.
PivotCellByYear(rows, y, c) ==
    rows[CHOOSE i \in 1..Len(rows) : rows[i].year = y].value

\* The cell of the pivot at (y, c): the row's value, NaN where there is no row.
PivotCell(rows, y, c) ==
    IF RowsWithKey(rows, c, y) # {}
    THEN rows[CHOOSE i \in RowsWithKey(rows, c, y) : TRUE].value
    ELSE NaN

\* A wide table: the row index (years), the column labels (countries), the cells.
WideTable(index, columns, rows) ==
    [index   |-> index,
     columns |-> columns,
     cell    |-> [p \in Range(index) \X Range(columns) |->
                     PivotCell(rows, p[1], p[2])]]

EmptyWide == WideTable(<<>>, <<>>, <<>>)

\* df.pivot(index='year', columns='country', values='value').
Pivot(rows) ==
    WideTable(SortedInts(YearsOf(rows)), SortedCountries(CountriesOf(rows)), rows)

\* .sort_index(): the rows in ascending order of the year.
SortIndex(w) == [w EXCEPT !.index = SortedInts(Range(w.index))]

WideReturns(w) == [ok |-> TRUE,  err |-> "none", wide |-> w]
WideRaises(e)  == [ok |-> FALSE, err |-> e,      wide |-> EmptyWide]

\* to_wide that keeps the last of the rows sharing a key (an aggregating pivot).
to_wide_keep_last(rows) ==
    LET last(r) == \A j \in RowsWithKey(rows, r.country, r.year) : rows[j].idx <= r.idx
    IN  WideReturns(SortIndex(Pivot(SelectSeq(rows, last))))

to_wide(rows) ==
    IF HasDuplicateKeys(rows)
    THEN WideRaises("ValueError")
    ELSE WideReturns(SortIndex(Pivot(rows)))

---------------------------------------------------------------------------
(* fetch_worldbank_gdp *)

\* A parsed JSON document: null, an object, or a list of len elements whose
\* second element (when there is one) is the list of records.
JsonNull          == [type |-> "null", len |-> 0, records |-> <<>>]
JsonObject        == [type |-> "dict", len |-> 0, records |-> <<>>]
JsonList(n, recs) == [type |-> "list", len |-> n, records |-> recs]
\* A body that is not JSON: resp.json() raises on it.
NotJson           == [type |-> "invalid", len |-> 0, records |-> <<>>]

\* data[1] if isinstance(data, list) and len(data) > 1 else []
RecordsOf(d) == IF d.type = "list" /\ d.len > 1 THEN d.records ELSE <<>>

\* The loop over the records: a record whose value is None is skipped.
HasValue(r) == r.value.kind # "null"

\* The row appended for the record r, its year and value as converted.
RowOf(r, year, value) ==
    [idx     |-> 0,
     country |-> r.country.value,
     iso3    |-> r.country.id,
     year    |-> year,
     value   |-> value]

\* pd.DataFrame(rows).sort_values(["country", "year"]).reset_index(drop=True):
\* a frame built from no rows has no columns, and sort_values raises KeyError.
FrameOf(rows) ==
    IF rows = <<>>
    THEN Raises("KeyError")
    ELSE Returns(ResetIndex(SortValues(ResetIndex(rows))))

\* int(r["date"]) and float(val) of a record.
Conversions(r) == [year |-> ToInt(Str(r.date)), value |-> ToFloat(r.value)]

ConversionFails(c) == ~c.year.ok \/ ~c.value.ok

\* The exception a record's conversions raise.
ConversionError(c) == IF ~c.year.ok THEN c.year.err ELSE c.value.err

\* The loop of lines 43-54 on the records kept, conv being their conversions,
\* and line 55 on its rows.
BuildRows(kept, conv) ==
    IF SelectSeq(conv, ConversionFails) # <<>>
    THEN Raises(ConversionError(SelectSeq(conv, ConversionFails)[1]))
    ELSE FrameOf([i \in 1..Len(kept) |->
                     RowOf(kept[i], conv[i].year.cell, conv[i].value.cell)])

\* Everything after resp.json(): lines 41-56.  The records are taken in
\* order; in a record int(r["date"]) comes before float(val), and the first
\* conversion that fails raises.
FetchFrame(d) ==
    BuildRows(SelectSeq(RecordsOf(d), HasValue),
              [i \in 1..Len(SelectSeq(RecordsOf(d), HasValue)) |->
                  Conversions(SelectSeq(RecordsOf(d), HasValue)[i])])

---------------------------------------------------------------------------
(* The inputs *)

\* The date field of an API record, a string: "1999", " 2000", and 2001 in
\* Arabic-Indic digits followed by a no-break space.
Dates == {<<"1", "9", "9", "9">>, <<" ", "2", "0", "0", "0">>,
          <<"U+0662", "U+0660", "U+0660", "U+0661", "U+00A0">>}

\* The value field of an API record: null, a number, a string.
RecordValues == {Null, Float(1), Str(<<"2", ".", "5">>)}

ApiRecords ==
    {[country |-> [id |-> ISO3[c], value |-> c], date |-> d, value |-> v] :
        c \in Countries, d \in Dates, v \in RecordValues}

SeqsUpTo(S, n) == UNION {[1..k -> S] : k \in 0..n}

Bodies ==
    {NotJson, JsonNull, JsonObject, JsonList(0, <<>>), JsonList(1, <<>>)}
    \cup {JsonList(2, recs) : recs \in SeqsUpTo(ApiRecords, MaxRecords)}

\* What the server answers to one request: no answer (the connection fails
\* or times out), a redirect (3xx with a Location), or a final response.
TransportFailure == [transport |-> "failed", redirect |-> FALSE,
                     location |-> "none", status |-> 0, body |-> JsonNull]
HttpResponse(status, body) ==
    [transport |-> "ok", redirect |-> FALSE, location |-> "none",
     status |-> status, body |-> body]
Redirect(location) ==
    [transport |-> "ok", redirect |-> TRUE, location |-> location,
     status |-> 302, body |-> JsonNull]
NoResponse == [transport |-> "none", redirect |-> FALSE, location |-> "none",
               status |-> 0, body |-> JsonNull]

\* The Location of a redirect, by what requests does with it:
\*   "http"        : an http(s) URL, which is followed;
\*   "undecodable" : bytes that are not UTF-8 (UnicodeDecodeError);
\*   "unparsable"  : a URL urlparse rejects, as http://[x (ValueError);
\*   "unsupported" : a scheme without a connection adapter, as ftp://
\*                   (InvalidSchema);
\*   "invalid"     : a URL without a usable host or port (InvalidURL).
Locations == {"http", "undecodable", "unparsable", "unsupported", "invalid"}

\* A 3xx without a Location (304) is a final response, like any other status.
Responses ==
    {TransportFailure}
    \cup {HttpResponse(304, NotJson)}
    \cup {HttpResponse(st, JsonObject) : st \in {404, 500, 600}}
    \cup {HttpResponse(200, b) : b \in Bodies}

\* The final answers taken for a request that follows a redirect.
RedirectedResponses ==
    {TransportFailure, HttpResponse(500, JsonObject), HttpResponse(200, JsonList(2, <<>>))}

\* The answers to a request sent after k redirects.
Answers(k) ==
    (IF k = 0 THEN Responses ELSE RedirectedResponses)
    \cup {Redirect(l) : l \in Locations}

\* The cells of a table handed to clean_gdp directly: as years 2000, 2001,
\* "2001 ", the float 2000.5 and None.
InputYears  == {IntCell(2000), IntCell(2001), Str(<<"2", "0", "0", "1", " ">>),
                DoubleOf(FALSE, <<2, 0, 0, 0, 5>>, -1), Null}
InputValues == {Null, Float(1), Str(<<"2", ".", "5">>), Str(<<"n", "a", "n">>)}

\* A row of such a table; indicator is a column clean_gdp does not keep.
InputRows ==
    {[idx |-> 0, country |-> c, iso3 |-> ISO3[c], year |-> y, value |-> v,
      indicator |-> "NY.GDP.MKTP.CD"] :
        c \in Countries, y \in InputYears, v \in InputValues}

InputTables == {ResetIndex(t) : t \in SeqsUpTo(InputRows, MaxRows)}

---------------------------------------------------------------------------
(* The run *)

Raise(e) ==
    /\ pc' = "raised"
    /\ err' = e

\* What requests.get does with the answer r: it raises on a transport
\* failure, follows a redirect, and returns any other response.
Receive(r) ==
    /\ resp' = r
    /\ IF r.transport = "failed"
       THEN Raise("RequestException")
       ELSE /\ pc' = IF r.redirect THEN "redirect" ELSE "status"
            /\ err' = err

\* resp = requests.get(url, timeout=30): the call, and its first request.
HttpGet ==
    /\ pc = "start"
    /\ reqCount' = reqCount + 1
    /\ \E r \in Answers(redirects) : Receive(r)
    /\ UNCHANGED <<returned, redirects, countries_iso3, start_year, end_year,
                   data, df, tidy, wide>>

\* The redirects requests follows within one call: max_redirects.
RedirectLimit == 30

\* What stops a redirect from being followed, "none" when nothing does, in
\* the order requests finds it. The Location of a response is decoded and
\* parsed as soon as the response is received (for the response to a followed
\* request, to set its next request); only then are the redirects followed
\* so far counted, and an adapter and a connection looked up for the URL.
RedirectError(location, followed) ==
    IF location = "undecodable" THEN "UnicodeDecodeError"
    ELSE IF location = "unparsable" THEN "ValueError"
    ELSE IF followed >= RedirectLimit THEN "TooManyRedirects"
    ELSE IF location = "unsupported" THEN "InvalidSchema"
    ELSE IF location = "invalid" THEN "InvalidURL"
    ELSE "none"

\* Within the same call: requests follows a redirect (allow_redirects is on by
\* default) with a further request, or raises without sending one.
FollowRedirect ==
    /\ pc = "redirect"
    /\ IF RedirectError(resp.location, redirects) # "none"
       THEN /\ Raise(RedirectError(resp.location, redirects))
            /\ UNCHANGED <<resp, reqCount, redirects>>
       ELSE /\ redirects' = redirects + 1
            /\ reqCount' = reqCount + 1
            /\ \E r \in Answers(redirects + 1) : Receive(r)
    /\ UNCHANGED <<returned, countries_iso3, start_year, end_year,
                   data, df, tidy, wide>>

\* resp.raise_for_status(): raises for a 4xx or 5xx status.
RaiseForStatus ==
    /\ pc = "status"
    /\ IF 400 <= resp.status /\ resp.status < 600
       THEN Raise("HTTPError")
       ELSE pc' = "json" /\ err' = err
    /\ UNCHANGED <<returned, reqCount, redirects, countries_iso3,
                   start_year, end_year, resp, data, df, tidy, wide>>

\* data = resp.json()
ParseJson ==
    /\ pc = "json"
    /\ IF resp.body = NotJson
       THEN Raise("JSONDecodeError") /\ data' = data
       ELSE pc' = "frame" /\ err' = err /\ data' = resp.body
    /\ UNCHANGED <<returned, reqCount, redirects, countries_iso3,
                   start_year, end_year, resp, df, tidy, wide>>

\* records = ... ; rows = ... ; df = ... ; return df
BuildFrame ==
    /\ pc = "frame"
    /\ \E res \in {FetchFrame(data)} :
          IF res.ok
          THEN /\ pc' = "fetched"
               /\ err' = err
               /\ df' = res.rows
               /\ returned' = returned \cup {"fetch"}
          ELSE Raise(res.err) /\ UNCHANGED <<df, returned>>
    /\ UNCHANGED <<reqCount, redirects, countries_iso3, start_year, end_year, resp, data,
                   tidy, wide>>

\* tidy = clean_gdp(df), on a build of either cast behaviour.
Clean ==
    /\ pc = "fetched"
    /\ \E cast \in CastOutcomes : \E res \in {clean_gdp(df, cast)} :
          IF res.ok
          THEN /\ pc' = "cleaned"
               /\ err' = err
               /\ tidy' = res.rows
               /\ returned' = returned \cup {"clean"}
          ELSE Raise(res.err) /\ UNCHANGED <<tidy, returned>>
    /\ UNCHANGED <<reqCount, redirects, countries_iso3, start_year, end_year, resp, data,
                   df, wide>>

\* wide = to_wide(tidy)
ToWide ==
    /\ pc = "cleaned"
    /\ \E res \in {to_wide(tidy)} :
          IF res.ok
          THEN /\ pc' = "done"
               /\ err' = err
               /\ wide' = res.wide
               /\ returned' = returned \cup {"to_wide"}
          ELSE Raise(res.err) /\ UNCHANGED <<wide, returned>>
    /\ UNCHANGED <<reqCount, redirects, countries_iso3, start_year, end_year, resp, data,
                   df, tidy>>

\* A pipeline run: a valid request, nothing fetched yet.
Init ==
    /\ pc = "start"
    /\ err = "none"
    /\ returned = {}
    /\ reqCount = 0
    /\ redirects = 0
    /\ countries_iso3 \in (SUBSET {ISO3[c] : c \in Countries}) \ {{}}
    /\ start_year \in RequestYears
    /\ end_year \in RequestYears
    /\ start_year <= end_year
    /\ resp = NoResponse
    /\ data = JsonNull
    /\ df = <<>>
    /\ tidy = <<>>
    /\ wide = EmptyWide

Next ==
    \/ HttpGet
    \/ FollowRedirect
    \/ RaiseForStatus
    \/ ParseJson
    \/ BuildFrame
    \/ Clean
    \/ ToWide

Spec == Init /\ [][Next]_vars

\* clean_gdp, then to_wide, called on a table the caller built.
InitClean ==
    /\ pc = "fetched"
    /\ err = "none"
    /\ returned = {}
    /\ reqCount = 0
    /\ redirects = 0
    /\ countries_iso3 = {ISO3[c] : c \in Countries}
    /\ start_year = 2000
    /\ end_year = 2001
    /\ resp = NoResponse
    /\ data = JsonNull
    /\ df \in InputTables
    /\ tidy = <<>>
    /\ wide = EmptyWide

NextClean ==
    \/ Clean
    \/ ToWide

SpecClean == InitClean /\ [][NextClean]_vars

---------------------------------------------------------------------------
(* Un-pivoting, for the round trip *)

\* wide.reset_index().melt(id_vars='year'): one row per cell, column by column,
\* with the columns country, year, value.
MeltRow(w, k) ==
    LET c == w.columns[((k - 1) \div Len(w.index)) + 1]
        y == w.index[((k - 1) % Len(w.index)) + 1]
    IN  [idx |-> k - 1, country |-> c, year |-> y, value |-> w.cell[<<y, c>>]]

Melt(w) == [k \in 1..(Len(w.index) * Len(w.columns)) |-> MeltRow(w, k)]

\* The wide table un-pivoted and re-sorted by (country, year).
RoundTrip(w) == ResetIndex(SortValues(Melt(w)))

\* A table without its iso3 column.
WithoutIso3(rows) ==
    [i \in 1..Len(rows) |->
        [idx |-> rows[i].idx, country |-> rows[i].country,
         year |-> rows[i].year, value |-> rows[i].value]]

KeysOf(rows) == {<<rows[i].country, rows[i].year>> : i \in 1..Len(rows)}

---------------------------------------------------------------------------
(* The claims *)

Cleaned == "clean" \in returned
Pivoted == "to_wide" \in returned

\* C1: every row of the table obtained by fetch_worldbank_gdp followed by
\* clean_gdp has its year within [start_year, end_year] and its iso3 among the
\* requested country codes, whatever records the response contains.
C1_RowsWithinRequest ==
    ("fetch" \in returned /\ Cleaned) =>
        \A i \in 1..Len(tidy) :
            /\ IntLeq(IntCell(start_year), tidy[i].year)
            /\ IntLeq(tidy[i].year, IntCell(end_year))
            /\ tidy[i].iso3 \in countries_iso3

\* C2: when the response is a two-element envelope whose second element is an
\* empty list, the pipeline ends without error, with an empty tidy table and an
\* empty wide table.
C2_EmptyRecordsEndCleanly ==
    (data = JsonList(2, <<>>) /\ pc \in {"raised", "done"}) =>
        /\ pc = "done"
        /\ err = "none"
        /\ tidy = <<>>
        /\ wide = EmptyWide

\* C3: when the HTTP call succeeds but the parsed envelope is missing, is not a
\* list, or is a list of fewer than two elements, fetch_worldbank_gdp returns
\* an empty result instead of raising.
C3_MalformedEnvelopeReturnsEmpty ==
    (/\ resp.transport = "ok"
     /\ ~resp.redirect
     /\ ~(400 <= resp.status /\ resp.status < 600)
     /\ resp.body \in {JsonNull, JsonObject, JsonList(0, <<>>), JsonList(1, <<>>)}
     /\ pc \notin {"status", "json", "frame"}) =>
        /\ "fetch" \in returned
        /\ err = "none"
        /\ df = <<>>

\* C4, as claimed: for a tidy table T without duplicate (country, year) pairs,
\* pivoting with to_wide, un-pivoting and re-sorting by (country, year)
\* reproduces T exactly, with its four columns, also when some (year, country)
\* combinations are absent from T.
C4_RoundTripReproducesTidy ==
    Pivoted => RoundTrip(wide) = tidy

\* C4, amended: the round trip yields one row per combination of T's countries
\* and years, with the columns country, year, value; the rows whose pair occurs
\* in T are T's rows without iso3, in T's order, and every other row holds the
\* missing-value marker.
C4_RoundTripKeepsCountryYearValue ==
    Pivoted =>
        LET back    == RoundTrip(wide)
            InT(r)  == <<r.country, r.year>> \in KeysOf(tidy)
        IN  /\ Len(back) = Cardinality(CountriesOf(tidy)) * Cardinality(YearsOf(tidy))
            /\ ResetIndex(SelectSeq(back, InT)) = WithoutIso3(tidy)
            /\ \A k \in 1..Len(back) : ~InT(back[k]) => back[k].value = NaN

\* C4's case: a table of two countries whose years differ has been pivoted.
C4_Witness ==
    /\ Pivoted
    /\ Len(tidy) = 2
    /\ tidy[1].country # tidy[2].country
    /\ tidy[1].year # tidy[2].year
    /\ ~IsNa(tidy[1].value)

\* C5: clean_gdp is idempotent: on every table on which clean_gdp succeeds,
\* cleaning its result again returns that result, row for row, in the same order.
C5_CleanIdempotent ==
    Cleaned => \A cast \in CastOutcomes : clean_gdp(tidy, cast) = Returns(tidy)

\* C6: if the tidy table given to to_wide holds more than one row with the
\* same (year, country) pair, to_wide fails with a duplicate-key error and
\* returns no wide table.
C6_DuplicateKeyRaises ==
    (/\ Cleaned
     /\ pc \in {"raised", "done"}
     /\ \E c \in Countries, y \in YearsOf(tidy) :
            Cardinality(RowsWithKey(tidy, c, y)) > 1) =>
        /\ pc = "raised"
        /\ err = "ValueError"
        /\ ~Pivoted
        /\ wide = EmptyWide

\* C6's case: to_wide has raised on two rows that share their key and differ
\* in their value.
C6_Witness ==
    /\ Cleaned
    /\ pc = "raised"
    /\ Len(tidy) = 2
    /\ tidy[1].country = tidy[2].country
    /\ tidy[1].year = tidy[2].year
    /\ tidy[1].value # tidy[2].value

\* C7: for a tidy table without duplicate pairs, the wide table's row index is
\* the ascending sequence of the distinct years, its columns are the distinct
\* country names, and the cell (year, country) holds the table's value for the
\* pair, or the missing-value marker when the table has no such row.
C7_WideShape ==
    Pivoted =>
        /\ Range(wide.index) = YearsOf(tidy)
        /\ \A i, j \in 1..Len(wide.index) :
              i < j => IntLess(wide.index[i], wide.index[j])
        /\ Range(wide.columns) = CountriesOf(tidy)
        /\ Len(wide.columns) = Cardinality(CountriesOf(tidy))
        /\ DOMAIN wide.cell = YearsOf(tidy) \X CountriesOf(tidy)
        /\ \A y \in YearsOf(tidy), c \in CountriesOf(tidy) :
              /\ \A i \in RowsWithKey(tidy, c, y) : wide.cell[<<y, c>>] = tidy[i].value
              /\ RowsWithKey(tidy, c, y) = {} => wide.cell[<<y, c>>] = NaN

\* C7's case: a wide table of two years and two countries, with a cell that is
\* missing and a cell that is not.
C7_Witness ==
    /\ Pivoted
    /\ Len(wide.index) = 2
    /\ Len(wide.columns) = 2
    /\ \E p \in DOMAIN wide.cell : RowsWithKey(tidy, p[2], p[1]) = {}
    /\ \E p \in DOMAIN wide.cell : wide.cell[p] = Float(1)

\* C8: no row returned by clean_gdp has a null value, and every input row with
\* a non-null value is present in the output.
C8_NoNullValueInOutput ==
    Cleaned =>
        /\ \A i \in 1..Len(tidy) : ~IsNa(tidy[i].value)
        /\ \A i \in 1..Len(df) :
              ~IsNa(df[i].value) =>
                  \E j \in 1..Len(tidy) :
                      /\ tidy[j].country = df[i].country
                      /\ tidy[j].iso3 = df[i].iso3
                      /\ tidy[j].year = ToInt(df[i].year).cell
                      /\ tidy[j].value = ToFloat(df[i].value).cell

\* C9: the rows returned by clean_gdp are in ascending (country, year) order
\* and indexed contiguously from zero, and no row is dropped as a duplicate:
\* the rows with a given (country, year) are as many as the input's rows with
\* that pair and a non-null value, so the output has as many rows as the input
\* has rows with a non-null value.
C9_SortedReindexedNoDedup ==
    Cleaned =>
        /\ \A i, j \in 1..Len(tidy) :
              i < j =>
                  \/ CountryRank(tidy[i].country) < CountryRank(tidy[j].country)
                  \/ /\ tidy[i].country = tidy[j].country
                     /\ IntLeq(tidy[i].year, tidy[j].year)
        /\ \A i \in 1..Len(tidy) : tidy[i].idx = i - 1
        /\ Len(tidy) = Cardinality({i \in 1..Len(df) : ~IsNa(df[i].value)})
        /\ \A c \in Countries, y \in YearsOf(tidy) :
              Cardinality(RowsWithKey(tidy, c, y)) =
                  Cardinality({i \in 1..Len(df) :
                                  /\ ~IsNa(df[i].value)
                                  /\ df[i].country = c
                                  /\ ToInt(df[i].year).cell = y})

\* C9's case: two input rows with the same (country, year), the year given
\* once as an integer and once as a string, and with different values, have
\* both been kept.
C9_Witness ==
    /\ Cleaned
    /\ Len(tidy) = 2
    /\ tidy[1].country = tidy[2].country
    /\ tidy[1].year = tidy[2].year
    /\ tidy[1].value # tidy[2].value
    /\ df[1].year # df[2].year

\* C10: a run of fetch_worldbank_gdp issues one outbound request and never a
\* second; when the request fails in transport or returns a 4xx/5xx status,
\* the error is raised to the caller and no table is returned.
C10_OneRequestNoRetry ==
    /\ reqCount <= 1
    /\ pc # "start" => reqCount = 1
    /\ resp.transport = "failed" =>
          pc = "raised" /\ err = "RequestException" /\ returned = {}
    /\ (/\ resp.transport = "ok" /\ ~resp.redirect
        /\ 400 <= resp.status /\ resp.status < 600 /\ pc # "status") =>
          pc = "raised" /\ err = "HTTPError" /\ returned = {}

====
